---- MODULE Spec2Model ----
(***************************************************************************)
(* Model of linux/runner/my_application.cc: the GTK application shell of   *)
(* bizsync.  The state is the MyApplication instance (its stored argument  *)
(* list), the process environment, the default GDK display, the heap       *)
(* blocks allocated by g_strdupv, and a log of the calls the hooks make.   *)
(* Each GApplication/GObject virtual function is one action.               *)
(***************************************************************************)
EXTENDS Integers, Sequences, FiniteSets, TLC

VARIABLES
  env,                        \* process environment: name -> value (set names only)
  initial_env,                \* the environment the process was started with
  display,                    \* gdk_display_get_default(): NoDisplay or a backend
  dart_entrypoint_arguments,  \* self->dart_entrypoint_arguments: NULL or a heap block
  heap,                       \* blocks made by g_strdupv: [strv, frees]
  is_registered,              \* GApplication's registered flag
  shut_down,                  \* the shutdown hook has run
  trace,                      \* calls made by the hooks, in order (of an activation
                              \* only the view's construction; the rest is last_act.calls)
  last_cmd,                   \* outcome of the latest local_command_line
  last_act                    \* what the latest activate did

vars == <<env, initial_env, display, dart_entrypoint_arguments, heap,
          is_registered, shut_down, trace, last_cmd, last_act>>

----------------------------------------------------------------------------
(* Bounds of the model *)

MaxCmdLines == 2
MaxDispose  == 2

----------------------------------------------------------------------------
(* Values *)

NULL      == 0          \* the null pointer into heap
NoDisplay == "NULL"     \* gdk_display_get_default() returned nullptr
Backends  == {"x11", "wayland", "broadway"}

\* An optional C string: <<>> is nullptr, <<s>> is the string s.
None    == <<>>
Some(s) == <<s>>

\* Inputs
FlagValues     == {None, Some("1"), Some("11")}
RendererValues == {None,
                   Some("llvmpipe (LLVM 15.0.7, 256 bits)"),
                   Some("Gallium 0.4 on softpipe"),
                   Some("Mesa swrast_dri"),
                   Some("LLVMpipe"),
                   Some("swras")}
BackendValues  == {None, Some("wayland"), Some("broadway")}
WMNames        == {None, Some("GNOME Shell"), Some("gnome shell"), Some("Xfwm4")}
Visuals        == {"NULL", "system_visual"}
ArgvValues     == {<<"bizsync">>,
                   <<"bizsync", "--verbose">>,
                   <<"bizsync", "file.db", "--verbose">>}

\* Variables present in every start environment: an unrelated one and one of
\* the twelve with a different value.
BaseEnv == [n \in {"HOME", "vblank_mode"} |-> IF n = "HOME" THEN "/root" ELSE "3"]

----------------------------------------------------------------------------
(* libc / GLib helpers *)

getenv(e, name) == IF name \in DOMAIN e THEN Some(e[name]) ELSE None

\* setenv(name, value, 1): always overwrites
setenv(e, name, value) ==
  [n \in DOMAIN e \cup {name} |-> IF n = name THEN value ELSE e[n]]

\* strcmp is only compared with 0 in this file
strcmp(a, b) == IF a = b THEN 0 ELSE 1

\* g_strcmp0 accepts nullptr on either side; a nullptr sorts before a string
g_strcmp0(a, b) ==
  IF a = None /\ b = None THEN 0
  ELSE IF a = None THEN 0 - 1
  ELSE IF b = None THEN 1
  ELSE strcmp(a[1], b[1])

\* strstr: position of the first occurrence of needle (1-based), 0 for nullptr
RECURSIVE strstr_from(_, _, _)
strstr_from(haystack, needle, i) ==
  IF i + Len(needle) - 1 > Len(haystack) THEN 0
  ELSE IF SubSeq(haystack, i, i + Len(needle) - 1) = needle THEN i
  ELSE strstr_from(haystack, needle, i + 1)

strstr(haystack, needle) == strstr_from(haystack, needle, 1)

\* g_strdupv copies the vector element by element up to the terminator
RECURSIVE g_strdupv(_)
g_strdupv(strv) ==
  IF strv = <<>> THEN <<>> ELSE <<Head(strv)>> \o g_strdupv(Tail(strv))

\* Variant: the program name is not skipped
SkipOne_nothing(argv) == argv

\* *arguments + 1: the vector starting at its second element
SkipOne(argv) == SubSeq(argv, 2, Len(argv))

\* Build configuration (the GDK headers of a GTK3 Linux build define both)
GDK_WINDOWING_X11     == TRUE
GDK_WINDOWING_WAYLAND == TRUE

GDK_IS_X11_DISPLAY(d)     == GDK_WINDOWING_X11 /\ d = "x11"
GDK_IS_WAYLAND_DISPLAY(d) == GDK_WINDOWING_WAYLAND /\ d = "wayland"
\* gtk_window_get_screen: the screen of the display the window is on
GDK_IS_X11_SCREEN(d)      == d = "x11"

----------------------------------------------------------------------------
(* is_mesa_software_rendering *)

\* Variant: the flag counts whenever it is set, whatever its value
is_mesa_flag_unchecked(e) ==
  LET renderer    == getenv(e, "LIBGL_ALWAYS_SOFTWARE")
      gl_renderer == getenv(e, "GL_RENDERER")
  IN  IF renderer # None THEN TRUE
      ELSE IF gl_renderer # None
              /\ (\/ strstr(gl_renderer[1], "llvmpipe") # 0
                  \/ strstr(gl_renderer[1], "softpipe") # 0
                  \/ strstr(gl_renderer[1], "swrast") # 0) THEN TRUE
      ELSE FALSE

is_mesa_software_rendering(e) ==
  LET renderer    == getenv(e, "LIBGL_ALWAYS_SOFTWARE")
      gl_renderer == getenv(e, "GL_RENDERER")
  IN  IF renderer # None /\ strcmp(renderer[1], "1") = 0 THEN TRUE
      ELSE IF gl_renderer # None
              /\ (\/ strstr(gl_renderer[1], "llvmpipe") # 0
                  \/ strstr(gl_renderer[1], "softpipe") # 0
                  \/ strstr(gl_renderer[1], "swrast") # 0) THEN TRUE
      ELSE FALSE

----------------------------------------------------------------------------
(* configure_mesa_rendering: the environment it leaves and what it prints, *)
(* given the default display at the time of the call                       *)

MesaBanner == <<"g_print:BizSync: Mesa software rendering detected">>

\* Variant: the backend is forced on any open display
force_x11_backend_any_display(e, d) ==
  LET gdk_backend == getenv(e, "GDK_BACKEND")
  IN  IF gdk_backend = None \/ strcmp(gdk_backend[1], "wayland") = 0
      THEN IF d # NoDisplay THEN setenv(e, "GDK_BACKEND", "x11") ELSE e
      ELSE e

force_x11_backend(e, d) ==
  LET gdk_backend == getenv(e, "GDK_BACKEND")
  IN  IF gdk_backend = None \/ strcmp(gdk_backend[1], "wayland") = 0
      THEN IF d # NoDisplay
           THEN IF GDK_IS_X11_DISPLAY(d) THEN setenv(e, "GDK_BACKEND", "x11") ELSE e
           ELSE e
      ELSE e

\* Variant: the second setting is written to the detector's flag instead
mesa_settings_clobber_flag(e) ==
  LET e1  == setenv(e,   "vblank_mode", "0")
      e2  == setenv(e1,  "LIBGL_ALWAYS_SOFTWARE", "0")
      e3  == setenv(e2,  "CLUTTER_PAINT", "disable-clipped-redraws:disable-culling")
      e4  == setenv(e3,  "MESA_GLSL_CACHE_DISABLE", "1")
      e5  == setenv(e4,  "MESA_SHADER_CACHE_DISABLE", "1")
      e6  == setenv(e5,  "mesa_glthread", "false")
      e7  == setenv(e6,  "MESA_NO_MEMOBJ_CACHE", "1")
      e8  == setenv(e7,  "MESA_DEBUG", "flush")
      e9  == setenv(e8,  "force_s3tc_enable", "false")
      e10 == setenv(e9,  "MESA_EXTENSION_OVERRIDE",
                         "-GL_ARB_buffer_storage -GL_EXT_buffer_storage")
      e11 == setenv(e10, "LP_NUM_THREADS", "1")
  IN  setenv(e11, "MESA_FBO_CACHE", "0")

\* the twelve unconditional setenv calls, in the order of the code
mesa_settings(e) ==
  LET e1  == setenv(e,   "vblank_mode", "0")
      e2  == setenv(e1,  "LIBGL_DRI3_DISABLE", "1")
      e3  == setenv(e2,  "CLUTTER_PAINT", "disable-clipped-redraws:disable-culling")
      e4  == setenv(e3,  "MESA_GLSL_CACHE_DISABLE", "1")
      e5  == setenv(e4,  "MESA_SHADER_CACHE_DISABLE", "1")
      e6  == setenv(e5,  "mesa_glthread", "false")
      e7  == setenv(e6,  "MESA_NO_MEMOBJ_CACHE", "1")
      e8  == setenv(e7,  "MESA_DEBUG", "flush")
      e9  == setenv(e8,  "force_s3tc_enable", "false")
      e10 == setenv(e9,  "MESA_EXTENSION_OVERRIDE",
                         "-GL_ARB_buffer_storage -GL_EXT_buffer_storage")
      e11 == setenv(e10, "LP_NUM_THREADS", "1")
  IN  setenv(e11, "MESA_FBO_CACHE", "0")

configure_mesa_rendering(e, d) ==
  IF is_mesa_software_rendering(e)
  THEN [env |-> force_x11_backend(mesa_settings(e), d), out |-> MesaBanner]
  ELSE [env |-> e, out |-> <<>>]

----------------------------------------------------------------------------
(* my_application_startup: configure, then the parent class's startup,     *)
(* which opens the default display when none is open yet                   *)

parent_startup_display(d, opened) == IF d = NoDisplay THEN opened ELSE d

\* Variant: the startup hook only delegates to the parent class
my_application_startup_unconfigured(e, d, opened) ==
  [env     |-> e,
   display |-> parent_startup_display(d, opened),
   log     |-> <<"parent.startup">>]

my_application_startup(e, d, opened) ==
  LET c == configure_mesa_rendering(e, d)
  IN  [env     |-> c.env,
       display |-> parent_startup_display(d, opened),
       log     |-> c.out \o <<"configure_mesa_rendering", "parent.startup">>]

----------------------------------------------------------------------------
(* my_application_activate: the calls it makes, in order                   *)

\* Variant: an absent window-manager name keeps the header bar
use_header_bar_null_name(d, wm_name) ==
  IF GDK_IS_X11_DISPLAY(d) /\ GDK_IS_X11_SCREEN(d)
       /\ wm_name # None /\ strcmp(wm_name[1], "GNOME Shell") # 0
  THEN FALSE
  ELSE TRUE

use_header_bar(d, wm_name) ==
  IF GDK_IS_X11_DISPLAY(d) /\ GDK_IS_X11_SCREEN(d)
       /\ g_strcmp0(wm_name, Some("GNOME Shell")) # 0
  THEN FALSE
  ELSE TRUE

activate_calls(e, d, wm_name, visual) ==
  LET is_wayland == GDK_IS_WAYLAND_DISPLAY(d)
  IN     <<"gtk_application_window_new", "gtk_window_set_resizable",
           "gtk_window_set_decorated">>
      \o (IF is_wayland
          THEN <<"gtk_window_set_type_hint", "window.set_app_paintable(TRUE)">>
          ELSE <<>>)
      \o (IF use_header_bar(d, wm_name)
          THEN <<"gtk_header_bar_new", "header_bar.show", "gtk_header_bar_set_title",
                 "gtk_header_bar_set_show_close_button", "gtk_window_set_titlebar">>
          ELSE <<"gtk_window_set_title">>)
      \o <<"gtk_window_set_default_size">>
      \o (IF is_wayland THEN <<"window.set_size_request">> ELSE <<>>)
      \o <<"window.show">>
      \o <<"fl_dart_project_new", "fl_dart_project_set_dart_entrypoint_arguments",
           "fl_view_new">>
      \o (IF is_wayland
          THEN <<"view.set_can_focus", "view.set_receives_default",
                 "view.set_app_paintable(TRUE)">>
          ELSE <<>>)
      \o (IF is_mesa_software_rendering(e)
          THEN <<"view.set_app_paintable(FALSE)", "gdk_screen_get_system_visual">>
               \o (IF visual # "NULL"
                   THEN <<"window.set_visual", "view.set_visual">>
                   ELSE <<>>)
          ELSE <<>>)
      \o <<"view.show", "gtk_container_add", "fl_register_plugins",
           "view.grab_focus">>

\* how often a call appears in a call log
NumCalls(log, call) == Cardinality({i \in 1..Len(log) : log[i] = call})

\* the strings behind a stored argument pointer
Deref(h, p) == IF p = NULL THEN <<>> ELSE h[p].strv

my_application_activate(e, d, wm_name, visual, h, p) ==
  [n        |-> last_act.n + 1,
   display  |-> d,
   wm_name  |-> wm_name,
   visual   |-> visual,
   mesa     |-> is_mesa_software_rendering(e),
   calls    |-> activate_calls(e, d, wm_name, visual),
   args     |-> Deref(h, p)]

NoAct == [n |-> 0, display |-> NoDisplay, wm_name |-> None, visual |-> "NULL",
          mesa |-> FALSE, calls |-> <<>>, args |-> <<>>]

----------------------------------------------------------------------------
(* my_application_local_command_line                                       *)

\* exit status and whether g_application_activate is called
command_line_exit_status(register_ok) == IF ~register_ok THEN 1 ELSE 0
\* Variant: the early return after a failed registration is missing
command_line_activates_always(register_ok) == TRUE

command_line_activates(register_ok)   == register_ok

NoCmd == [n |-> 0, argv |-> <<>>, register_ok |-> FALSE, exit_status |-> 0,
          handled |-> FALSE, activations |-> 0]

\* g_application_register succeeds at once when already registered; the first
\* successful registration emits startup.
my_application_local_command_line(argv, register_ok, opened, wm_name, visual) ==
  LET p       == Len(heap) + 1
      h1      == Append(heap, [strv |-> g_strdupv(SkipOne(argv)), frees |-> 0])
      starts  == register_ok /\ ~is_registered
      started == my_application_startup(env, display, opened)
      e1      == IF starts THEN started.env ELSE env
      d1      == IF starts THEN started.display ELSE display
      acts    == command_line_activates(register_ok)
      act     == my_application_activate(e1, d1, wm_name, visual, h1, p)
  IN  /\ dart_entrypoint_arguments' = p
      /\ heap' = h1
      /\ env' = e1
      /\ display' = d1
      /\ is_registered' = (is_registered \/ register_ok)
      /\ last_act' = IF acts THEN act ELSE last_act
      /\ trace' = trace \o <<"g_strdupv", "g_application_register">>
                    \o (IF starts THEN started.log ELSE <<>>)
                    \o (IF ~register_ok THEN <<"g_warning">> ELSE <<>>)
                    \o (IF acts THEN <<"g_application_activate", "fl_view_new">> ELSE <<>>)
      /\ last_cmd' = [n           |-> last_cmd.n + 1,
                      argv        |-> argv,
                      register_ok |-> register_ok,
                      exit_status |-> command_line_exit_status(register_ok),
                      handled     |-> TRUE,
                      activations |-> NumCalls(trace', "g_application_activate")
                                        - NumCalls(trace, "g_application_activate")]
      /\ UNCHANGED <<initial_env, shut_down>>

\* how many times the dispose hook has run
NumDisposed == NumCalls(trace, "my_application_dispose")

CommandLine ==
  /\ last_cmd.n < MaxCmdLines
  /\ ~shut_down
  /\ NumDisposed = 0
  /\ \E argv \in ArgvValues, register_ok \in BOOLEAN :
       /\ is_registered => register_ok
       /\ LET starts == register_ok /\ ~is_registered
              d1     == IF starts /\ display = NoDisplay THEN Backends ELSE {display}
          IN  \E opened \in d1 :
              \E wm_name \in (IF register_ok /\ opened = "x11" THEN WMNames ELSE {None}) :
              \E visual \in (IF register_ok
                                /\ is_mesa_software_rendering(env)
                             THEN Visuals ELSE {"NULL"}) :
                my_application_local_command_line(argv, register_ok, opened, wm_name, visual)

----------------------------------------------------------------------------
(* my_application_shutdown: only the parent class's shutdown               *)

my_application_shutdown ==
  /\ is_registered
  /\ ~shut_down
  /\ NumDisposed = 0
  /\ shut_down' = TRUE
  /\ trace' = trace \o <<"parent.shutdown">>
  /\ UNCHANGED <<env, initial_env, display, dart_entrypoint_arguments, heap,
                 is_registered, last_cmd, last_act>>

----------------------------------------------------------------------------
(* my_application_dispose: g_clear_pointer, then the parent's dispose      *)

\* g_clear_pointer(&p, g_strfreev): the pointer afterwards, and the heap
\* Variant: g_strfreev is called on the field without clearing it
g_clear_pointer_ptr_kept(p) == p

g_clear_pointer_ptr(p) == NULL

g_clear_pointer_heap(h, p) ==
  IF p # NULL
  THEN [h EXCEPT ![p].frees = @ + 1]
  ELSE h

my_application_dispose ==
  /\ is_registered => shut_down
  /\ NumDisposed < MaxDispose
  /\ dart_entrypoint_arguments' = g_clear_pointer_ptr(dart_entrypoint_arguments)
  /\ heap' = g_clear_pointer_heap(heap, dart_entrypoint_arguments)
  /\ trace' = trace
               \o <<"my_application_dispose">>
               \o (IF dart_entrypoint_arguments # NULL THEN <<"g_strfreev">> ELSE <<>>)
               \o <<"parent.dispose">>
  /\ UNCHANGED <<env, initial_env, display, is_registered, shut_down, last_cmd,
                 last_act>>

----------------------------------------------------------------------------
(* my_application_new / my_application_init: the instance is zero-filled   *)

StartEnv(flag, renderer, backend) ==
  LET e1 == IF flag = None THEN BaseEnv
            ELSE setenv(BaseEnv, "LIBGL_ALWAYS_SOFTWARE", flag[1])
      e2 == IF renderer = None THEN e1 ELSE setenv(e1, "GL_RENDERER", renderer[1])
  IN  IF backend = None THEN e2 ELSE setenv(e2, "GDK_BACKEND", backend[1])

Init ==
  /\ \E flag \in FlagValues, renderer \in RendererValues, backend \in BackendValues :
       /\ env = StartEnv(flag, renderer, backend)
       /\ initial_env = env
  /\ display \in {NoDisplay, "x11", "wayland"}
  /\ dart_entrypoint_arguments = NULL
  /\ heap = <<>>
  /\ is_registered = FALSE
  /\ shut_down = FALSE
  /\ trace = <<>>
  /\ last_cmd = NoCmd
  /\ last_act = NoAct

Next ==
  \/ CommandLine
  \/ my_application_shutdown
  \/ my_application_dispose

Spec == Init /\ [][Next]_vars

----------------------------------------------------------------------------
(* Vocabulary of the properties *)

\* position of the first occurrence of a call in a call log, 0 when absent
RECURSIVE PosFrom(_, _, _)
PosFrom(log, call, i) ==
  IF i > Len(log) THEN 0
  ELSE IF log[i] = call THEN i
  ELSE PosFrom(log, call, i + 1)

Pos(log, call) == PosFrom(log, call, 1)

Called(log, call) == \E i \in 1..Len(log) : log[i] = call

\* needle occurs somewhere in text
Contains(text, needle) ==
  \E i \in 1..(Len(text) - Len(needle) + 1) :
    SubSeq(text, i, i + Len(needle) - 1) = needle

SoftwareRasterizers == {"llvmpipe", "softpipe", "swrast"}

\* the documented condition for software rendering
SoftwareCondition(e) ==
  \/ "LIBGL_ALWAYS_SOFTWARE" \in DOMAIN e /\ e["LIBGL_ALWAYS_SOFTWARE"] = "1"
  \/ /\ "GL_RENDERER" \in DOMAIN e
     /\ \E t \in SoftwareRasterizers : Contains(e["GL_RENDERER"], t)

\* the twelve fixed variables and their literal values
MesaLiterals ==
  [vblank_mode               |-> "0",
   LIBGL_DRI3_DISABLE        |-> "1",
   CLUTTER_PAINT             |-> "disable-clipped-redraws:disable-culling",
   MESA_GLSL_CACHE_DISABLE   |-> "1",
   MESA_SHADER_CACHE_DISABLE |-> "1",
   mesa_glthread             |-> "false",
   MESA_NO_MEMOBJ_CACHE      |-> "1",
   MESA_DEBUG                |-> "flush",
   force_s3tc_enable         |-> "false",
   MESA_EXTENSION_OVERRIDE   |-> "-GL_ARB_buffer_storage -GL_EXT_buffer_storage",
   LP_NUM_THREADS            |-> "1",
   MESA_FBO_CACHE            |-> "0"]

\* variable v has the same state (unset, or set to the same value) in a and b
SameVar(a, b, v) == getenv(a, v) = getenv(b, v)

\* the step in which the startup hook runs
StartupStep == ~is_registered /\ is_registered'

\* a step of the dispose hook
DisposeStep == NumCalls(trace', "my_application_dispose") = NumDisposed + 1

\* the configurator printed its banner, i.e. applied the environment workarounds
EnvWorkaroundsApplied == Called(trace, MesaBanner[1])

\* argv without its first element, by index
WithoutProgramName(argv) == [i \in 1..(Len(argv) - 1) |-> argv[i + 1]]

\* heap blocks that were allocated and never released
Unreleased == {i \in 1..Len(heap) : heap[i].frees = 0}

----------------------------------------------------------------------------
(* Properties *)

\* C1: every run of the command-line handler reports the command line as
\* handled; after a failed registration the exit status is 1 and no
\* activation was made, after a successful one the exit status is 0 and
\* exactly one activation was made.
C1_CommandLineOutcome ==
  last_cmd.n > 0 =>
    /\ last_cmd.handled
    /\ ~last_cmd.register_ok => last_cmd.exit_status = 1 /\ last_cmd.activations = 0
    /\ last_cmd.register_ok  => last_cmd.exit_status = 0 /\ last_cmd.activations = 1

\* C1 witness: a failed registration was followed by a successful one
C1_Witness ==
  /\ last_cmd.n = 2
  /\ last_cmd.register_ok
  /\ Called(trace, "g_warning")

\* C2: whenever the view is constructed, the configurator has completed
\* earlier in the run.
C2_ConfiguredBeforeView ==
  \A i \in 1..Len(trace) :
    trace[i] = "fl_view_new" =>
      \E j \in 1..(i - 1) : trace[j] = "configure_mesa_rendering"

\* C2 witness: a view was constructed in a run whose configurator changed
\* the environment
C2_Witness ==
  /\ Called(trace, "fl_view_new")
  /\ env # initial_env

\* C3: the detector returns true exactly when LIBGL_ALWAYS_SOFTWARE is "1" or
\* GL_RENDERER contains one of the three rasterizer names, at both of its
\* call sites (the configurator, seen by its banner, and the activation).
C3_DetectorIff ==
  /\ is_registered => (EnvWorkaroundsApplied <=> SoftwareCondition(initial_env))
  /\ last_act.n > 0 => (last_act.mesa <=> SoftwareCondition(env))

\* C3 witness: the detector answered true for a renderer name although the
\* flag is set to something other than "1"
C3_Witness ==
  /\ last_act.n > 0
  /\ last_act.mesa
  /\ getenv(env, "LIBGL_ALWAYS_SOFTWARE") = Some("11")
  /\ getenv(env, "GL_RENDERER") = Some("Mesa swrast_dri")

\* C4: in the step that runs the configurator, the environment is unchanged
\* when software rendering is not detected; otherwise the twelve variables
\* hold their literals, GDK_BACKEND becomes "x11" exactly when it was unset or
\* "wayland" and the default display exists and is X11 (and is unchanged
\* otherwise), and every other variable is unchanged.
C4_ConfiguratorEffect ==
  [][StartupStep =>
       IF ~SoftwareCondition(env)
       THEN env' = env
       ELSE /\ \A v \in DOMAIN MesaLiterals : getenv(env', v) = Some(MesaLiterals[v])
            /\ IF /\ getenv(env, "GDK_BACKEND") \in {None, Some("wayland")}
                  /\ display # NoDisplay
                  /\ display = "x11"
               THEN getenv(env', "GDK_BACKEND") = Some("x11")
               ELSE SameVar(env, env', "GDK_BACKEND")
            /\ \A v \in (DOMAIN env \cup DOMAIN env')
                          \ (DOMAIN MesaLiterals \cup {"GDK_BACKEND"}) :
                 SameVar(env, env', v)]_vars

\* C4 witness: the configurator ran under software rendering with
\* GDK_BACKEND=wayland and forced it to x11
C4_Witness ==
  /\ is_registered
  /\ EnvWorkaroundsApplied
  /\ getenv(initial_env, "GDK_BACKEND") = Some("wayland")
  /\ getenv(env, "GDK_BACKEND") = Some("x11")

\* C5: the activation sets a header bar on Wayland, on X11 under the window
\* manager "GNOME Shell", and on any other backend; on X11 under any other or
\* no window-manager name it sets the plain title; it does exactly one of
\* the two.
C5_HeaderBarTable ==
  last_act.n > 0 =>
    LET header == Called(last_act.calls, "gtk_window_set_titlebar")
        plain  == Called(last_act.calls, "gtk_window_set_title")
    IN  /\ last_act.display = "wayland" => header
        /\ last_act.display = "x11" /\ last_act.wm_name = Some("GNOME Shell") => header
        /\ last_act.display = "x11" /\ last_act.wm_name # Some("GNOME Shell")
             => ~header /\ plain
        /\ last_act.display \notin {"wayland", "x11"} => header
        /\ NumCalls(last_act.calls, "gtk_window_set_titlebar")
             + NumCalls(last_act.calls, "gtk_window_set_title") = 1

\* C5 witness: an activation on X11 with no window-manager name
C5_Witness ==
  /\ last_act.n > 0
  /\ last_act.display = "x11"
  /\ last_act.wm_name = None
  /\ Called(last_act.calls, "gtk_window_set_title")

\* C6: every disposal leaves the stored list unset and ends with one call of
\* the parent's dispose; it releases the stored list once when one is stored and
\* nothing otherwise, so no block is ever released twice.
C6_DisposeOnce ==
  [][DisposeStep =>
       /\ dart_entrypoint_arguments' = NULL
       /\ Len(heap') = Len(heap)
       /\ \A i \in 1..Len(heap) :
            /\ heap'[i].strv = heap[i].strv
            /\ heap'[i].frees =
                 IF i = dart_entrypoint_arguments THEN 1 ELSE heap[i].frees
            /\ heap'[i].frees <= 1
       /\ NumCalls(trace', "g_strfreev") - NumCalls(trace, "g_strfreev")
            = (IF dart_entrypoint_arguments # NULL THEN 1 ELSE 0)
       /\ NumCalls(trace', "parent.dispose") = NumCalls(trace, "parent.dispose") + 1
       /\ trace'[Len(trace')] = "parent.dispose"]_vars

\* C6 witness: a stored list was disposed of twice
C6_Witness ==
  /\ NumDisposed = 2
  /\ NumCalls(trace, "g_strfreev") = 1
  /\ dart_entrypoint_arguments = NULL

\* C7: the stored list is argv without its first element, in order, and the
\* activation made by a command line hands exactly that list to the engine.
C7_ArgumentsForwarded ==
  last_cmd.n > 0 =>
    /\ dart_entrypoint_arguments # NULL =>
         heap[dart_entrypoint_arguments].strv = WithoutProgramName(last_cmd.argv)
    /\ last_cmd.activations = 1 =>
         last_act.args = WithoutProgramName(last_cmd.argv)

\* C7 witness: a three-element argv was stored and forwarded
C7_Witness ==
  /\ Len(last_cmd.argv) = 3
  /\ last_cmd.activations = 1
  /\ last_act.args = <<"file.db", "--verbose">>

\* C8: at most one argument list is allocated and unreleased at any point,
\* and none after disposal.
C8_NoLeak ==
  /\ Cardinality(Unreleased) <= 1
  /\ NumDisposed > 0 => Unreleased = {}

\* C9: within an activation the view is constructed and, when a system
\* visual is applied, it is applied to the window before the window is
\* shown; the view is attached, plugins registered and focus grabbed only
\* after the view is shown.
C9_ActivationOrder ==
  last_act.n > 0 =>
    LET c == last_act.calls
    IN  /\ Pos(c, "fl_view_new") < Pos(c, "window.show")
        /\ Called(c, "window.set_visual") =>
             Pos(c, "window.set_visual") < Pos(c, "window.show")
        /\ Pos(c, "view.show") < Pos(c, "gtk_container_add")
        /\ Pos(c, "view.show") < Pos(c, "fl_register_plugins")
        /\ Pos(c, "view.show") < Pos(c, "view.grab_focus")

\* C10 as stated: the configurator leaves the detector's two variables alone,
\* and an activation disables the view's app-paintable flag and applies the
\* system visual exactly when the configurator applied its workarounds.
C10_WorkaroundsAgree ==
  /\ SameVar(initial_env, env, "LIBGL_ALWAYS_SOFTWARE")
  /\ SameVar(initial_env, env, "GL_RENDERER")
  /\ last_act.n > 0 =>
       /\ Called(last_act.calls, "view.set_app_paintable(FALSE)")
            <=> EnvWorkaroundsApplied
       /\ Called(last_act.calls, "window.set_visual") <=> EnvWorkaroundsApplied
       /\ Called(last_act.calls, "view.set_visual") <=> EnvWorkaroundsApplied

\* C10 amended: as above, except that the system visual is applied exactly
\* when the configurator applied its workarounds and the screen reports a
\* system visual.
C10_WorkaroundsAgreeGivenVisual ==
  /\ SameVar(initial_env, env, "LIBGL_ALWAYS_SOFTWARE")
  /\ SameVar(initial_env, env, "GL_RENDERER")
  /\ last_act.n > 0 =>
       /\ Called(last_act.calls, "view.set_app_paintable(FALSE)")
            <=> EnvWorkaroundsApplied
       /\ Called(last_act.calls, "window.set_visual")
            <=> (EnvWorkaroundsApplied /\ last_act.visual # "NULL")
       /\ Called(last_act.calls, "view.set_visual")
            <=> (EnvWorkaroundsApplied /\ last_act.visual # "NULL")

\* C10 witness: both levels of workaround were applied in one run
C10_Witness ==
  /\ last_act.n > 0
  /\ EnvWorkaroundsApplied
  /\ Called(last_act.calls, "view.set_app_paintable(FALSE)")
  /\ Called(last_act.calls, "view.set_visual")

====
